---- MODULE Spec2Model ----
(***************************************************************************)
(* Model of airflow/providers/standard/utils/python_virtualenv.py.         *)
(*                                                                         *)
(* Three specifications share the variables below:                         *)
(*   Spec        one call of prepare_virtualenv, split at its external     *)
(*               interactions (file write, spawned processes, raise);      *)
(*   SpecBuild   one call of one of the command / content builders;        *)
(*   SpecScript  one call of write_python_script.                          *)
(*                                                                         *)
(* Python strings are TLA+ strings, lists are sequences, and an optional   *)
(* value (x | None) is None or Some(x).                                    *)
(***************************************************************************)
EXTENDS Integers, Sequences, FiniteSets, TLC

VARIABLES
    args,                 \* the arguments of the call being executed
    pc,                   \* position of the call in its function body
    pip_install_options,  \* local of prepare_virtualenv after defaulting (l.113-114)
    pip_cmd,              \* local of prepare_virtualenv (l.125)
    trace,                \* external effects so far, in order: file writes and spawned processes
    pip_conf0,            \* content of <venv_directory>/pip.conf before the call
    pip_conf,             \* content of <venv_directory>/pip.conf now, None while no such file exists
    raised,               \* the exception that left the call, None if none
    returned,             \* the value the call returned, None if it has not returned
    file0,                \* write_python_script: content of `filename` before the call
    file,                 \* write_python_script: content of `filename` now
    template,             \* write_python_script: the nodes of python_virtualenv_script.jinja2
    pos                   \* write_python_script: number of template nodes already rendered

vars == <<args, pc, pip_install_options, pip_cmd, trace, pip_conf0, pip_conf, raised, returned,
          file0, file, template, pos>>

----------------------------------------------------------------------------
(* Optional values *)

None == [some |-> FALSE]

Some(v) == [some |-> TRUE, val |-> v]

----------------------------------------------------------------------------
(* Bounds and input domains *)

MaxReqs == 2

MaxOpts == 2

MaxUrls == 2

MaxBuildUrls == 3

MaxNodes == 3

SeqsUpTo(S, n) == UNION {[1..k -> S] : k \in 0..n}

Dirs == {"/tmp/x", "/v"}

PythonBins == {None, Some("/opt/py39")}

Packages == {"a", "b"}

ReqFiles == {"", "r.txt"}

Options == {"-q", "--pre"}

Urls == {"u1", "u2"}

BuildUrls == {"u1", "u2", "u3"}

Installers == {"pip", "uv"}

BuildInstallers == {"pip", "uv", "conda"}

ExitCodes == {0, 1}

\* sys.executable of the process that runs prepare_virtualenv
SysExecutable == "/usr/bin/python3"

----------------------------------------------------------------------------
(* Command Builder: lines 32-83 *)

\* slip: the flag is inserted before the directory instead of appended
_generate_venv_cmd_flag_first(tmp_dir, python_bin, system_site_packages) ==
    LET bin == IF python_bin = None THEN SysExecutable ELSE python_bin.val
    IN  IF system_site_packages
        THEN <<bin, "-m", "venv", "--system-site-packages", tmp_dir>>
        ELSE <<bin, "-m", "venv", tmp_dir>>

_generate_venv_cmd(tmp_dir, python_bin, system_site_packages) ==
    LET bin == IF python_bin = None THEN SysExecutable ELSE python_bin.val
        cmd == <<bin, "-m", "venv", tmp_dir>>
    IN  IF system_site_packages THEN Append(cmd, "--system-site-packages") ELSE cmd

_generate_install_cmd_from_list(venv_directory, requirements, install_options, installer) ==
    IF installer = "uv"
    THEN <<venv_directory \o "/bin/uv", "pip", "install">> \o install_options \o requirements
    ELSE <<venv_directory \o "/bin/pip", "install">> \o install_options \o requirements

\* slip: the "-r" pair is placed before the install options
_generate_install_cmd_from_file_r_first(venv_directory, requirements_file_path, install_options, installer) ==
    IF installer = "uv"
    THEN <<venv_directory \o "/bin/uv", "pip", "install", "-r", requirements_file_path>>
            \o install_options
    ELSE <<venv_directory \o "/bin/pip", "install", "-r", requirements_file_path>>
            \o install_options

_generate_install_cmd_from_file(venv_directory, requirements_file_path, install_options, installer) ==
    IF installer = "uv"
    THEN <<venv_directory \o "/bin/uv", "pip", "install">> \o install_options
            \o <<"-r", requirements_file_path>>
    ELSE <<venv_directory \o "/bin/pip", "install">> \o install_options
            \o <<"-r", requirements_file_path>>

\* str.join
RECURSIVE Join(_, _)
Join(sep, xs) ==
    IF Len(xs) = 0 THEN ""
    ELSE IF Len(xs) = 1 THEN xs[1]
    ELSE xs[1] \o sep \o Join(sep, Tail(xs))

\* slip: the extra-index line is only produced from the third URL on
_generate_pip_conf_gt2(index_urls) ==
    LET pip_conf_options ==
            IF Len(index_urls) # 0
            THEN IF Len(index_urls) > 2
                 THEN "index-url = " \o index_urls[1] \o "\nextra-index-url = "
                          \o Join(" ", Tail(index_urls))
                 ELSE "index-url = " \o index_urls[1]
            ELSE "no-index = true"
    IN  "[global]\n" \o pip_conf_options

\* the text _generate_pip_conf hands to conf_file.write_text
_generate_pip_conf(index_urls) ==
    LET pip_conf_options ==
            IF Len(index_urls) # 0
            THEN IF Len(index_urls) > 1
                 THEN "index-url = " \o index_urls[1] \o "\nextra-index-url = "
                          \o Join(" ", Tail(index_urls))
                 ELSE "index-url = " \o index_urls[1]
            ELSE "no-index = true"
    IN  "[global]\n" \o pip_conf_options

\* Path(venv_directory) / "pip.conf"
ConfFile(venv_directory) == venv_directory \o "/pip.conf"

----------------------------------------------------------------------------
(* External collaborators *)

WriteEvent(path, content, ok) == [op |-> "write_text", path |-> path, content |-> content, ok |-> ok]

\* what <venv_directory>/pip.conf may hold before the call: no file, or a file
\* left by an earlier use of the directory
ConfFileContents == {None, Some("old\n")}

\* what open() raises when the file cannot be opened for writing: the
\* directory is missing, is not a directory or is not writable, the path is a
\* directory, or any other errno (EMFILE, ENOSPC, EROFS, ELOOP), which
\* surfaces as a plain OSError
OpenErrors ==
    {"FileNotFoundError", "NotADirectoryError", "IsADirectoryError", "PermissionError",
     "OSError"}

\* the proper prefixes of a text, the empty one included
Prefixes(text) == {SubSeq(text, 1, k) : k \in 0..(Len(text) - 1)}

\* Path.write_text(text) on a path that held `before`: it succeeds and the
\* file holds text; or open() fails with one of OpenErrors and the path is
\* left as it was; or the file is opened (created or truncated) and the write
\* fails part way (file size limit, full disk) with a plain OSError, leaving
\* a proper prefix of text
WriteTextOutcomes(before, text) ==
    {[ok |-> TRUE, exc |-> None, content |-> Some(text)]}
    \cup {[ok |-> FALSE, exc |-> Some(e), content |-> before] : e \in OpenErrors}
    \cup {[ok |-> FALSE, exc |-> Some("OSError"), content |-> Some(t)] : t \in Prefixes(text)}

\* airflow.utils.process_utils.execute_in_subprocess: runs cmd, raises
\* CalledProcessError when the exit status is not zero
ExecEvent(cmd, rc) == [op |-> "exec", cmd |-> cmd, rc |-> rc]

execute_in_subprocess_raises(rc) == rc # 0

\* names bound at module level when a function body runs
ModuleGlobals ==
    {"os", "sys", "Path", "jinja2", "select_autoescape", "execute_in_subprocess",
     "_generate_venv_cmd", "_generate_install_cmd_from_list",
     "_generate_install_cmd_from_file", "_generate_pip_conf",
     "prepare_virtualenv", "write_python_script"}

----------------------------------------------------------------------------
(* prepare_virtualenv: lines 86-136 *)

PrepareCalls ==
    [venv_directory : Dirs,
     python_bin : PythonBins,
     system_site_packages : BOOLEAN,
     requirements : {None} \cup {Some(r) : r \in SeqsUpTo(Packages, MaxReqs)},
     requirements_file_path : {None} \cup {Some(f) : f \in ReqFiles},
     pip_install_options : {None} \cup {Some(o) : o \in SeqsUpTo(Options, MaxOpts)},
     index_urls : {None} \cup {Some(u) : u \in SeqsUpTo(Urls, MaxUrls)},
     installer : Installers]

Init ==
    /\ args \in PrepareCalls
    /\ pc = "start"
    /\ pip_install_options = None
    /\ pip_cmd = None
    /\ trace = <<>>
    /\ pip_conf0 \in ConfFileContents
    /\ pip_conf = pip_conf0
    /\ raised = None
    /\ returned = None
    /\ file0 = None
    /\ file = None
    /\ template = <<>>
    /\ pos = 0

Raise(exc) ==
    /\ pc' = "raised"
    /\ raised' = Some(exc)

\* slip: truthiness test, which skips the empty list
NeedsIndexConfig_truthy(index_urls) == index_urls # None /\ Len(index_urls.val) # 0

\* l.116: if index_urls is not None
NeedsIndexConfig(index_urls) == index_urls # None

\* l.113-117: default the options, then write pip.conf when index_urls is given
ConfigureIndex ==
    /\ pc = "start"
    /\ pip_install_options' =
          IF args.pip_install_options = None THEN <<>> ELSE args.pip_install_options.val
    /\ IF NeedsIndexConfig(args.index_urls)
       THEN LET text == _generate_pip_conf(args.index_urls.val)
            IN  \E w \in WriteTextOutcomes(pip_conf, text) :
                   /\ trace' = Append(trace, WriteEvent(ConfFile(args.venv_directory), text, w.ok))
                   /\ pip_conf' = w.content
                   /\ IF w.ok
                      THEN /\ pc' = "create"
                           /\ UNCHANGED raised
                      ELSE Raise(w.exc.val)
       ELSE /\ pc' = "create"
            /\ UNCHANGED <<trace, pip_conf, raised>>
    /\ UNCHANGED <<args, pip_cmd, returned, pip_conf0, file0, file, template, pos>>

\* slip: the exit status of the create command is ignored
Create_ignores_exit ==
    /\ pc = "create"
    /\ \E rc \in ExitCodes :
          LET venv_cmd == _generate_venv_cmd(args.venv_directory, args.python_bin,
                                             args.system_site_packages)
          IN  trace' = Append(trace, ExecEvent(venv_cmd, rc))
    /\ pc' = "validate"
    /\ UNCHANGED <<args, pip_install_options, pip_cmd, pip_conf, raised, returned,
                   pip_conf0, file0, file, template, pos>>

\* l.119-120: build and run the create command
Create ==
    /\ pc = "create"
    /\ \E rc \in ExitCodes :
          LET venv_cmd == _generate_venv_cmd(args.venv_directory, args.python_bin,
                                             args.system_site_packages)
          IN  /\ trace' = Append(trace, ExecEvent(venv_cmd, rc))
              /\ IF execute_in_subprocess_raises(rc)
                 THEN Raise("CalledProcessError")
                 ELSE /\ pc' = "validate"
                      /\ UNCHANGED raised
    /\ UNCHANGED <<args, pip_install_options, pip_cmd, pip_conf, returned, pip_conf0, file0, file, template, pos>>

\* l.122-123: both dependency sources given
Validate ==
    /\ pc = "validate"
    /\ IF args.requirements # None /\ args.requirements_file_path # None
       THEN Raise("ValueError")
       ELSE /\ pc' = "build"
            /\ UNCHANGED raised
    /\ UNCHANGED <<args, pip_install_options, pip_cmd, trace, pip_conf, returned, pip_conf0, file0, file, template, pos>>

\* slip: the length test is dropped
HasRequirementsList_not_none(a) == a.requirements # None

\* l.126: requirements is not None and len(requirements) != 0
HasRequirementsList(a) == a.requirements # None /\ Len(a.requirements.val) # 0

\* l.128: requirements_file_path is not None and requirements_file_path
HasRequirementsFile(a) == a.requirements_file_path # None /\ a.requirements_file_path.val # ""

\* l.125-131: pip_cmd = None, then the two builder calls.  The names called on
\* l.127 and l.129 are not bound in the module, so evaluating either raises
\* NameError before any command is built.
BuildInstall ==
    /\ pc = "build"
    /\ IF HasRequirementsList(args) /\ "_generate_pip_install_cmd_from_list" \notin ModuleGlobals
       THEN /\ Raise("NameError")
            /\ UNCHANGED pip_cmd
       ELSE IF HasRequirementsFile(args) /\ "_generate_pip_install_cmd_from_file" \notin ModuleGlobals
       THEN /\ Raise("NameError")
            /\ UNCHANGED pip_cmd
       ELSE /\ pip_cmd' = None
            /\ pc' = "install"
            /\ UNCHANGED raised
    /\ UNCHANGED <<args, pip_install_options, trace, pip_conf, returned, pip_conf0, file0, file, template, pos>>

\* l.133-136: run the install command if there is one, then return the interpreter path
Install ==
    /\ pc = "install"
    /\ IF pip_cmd # None
       THEN \E rc \in ExitCodes :
               /\ trace' = Append(trace, ExecEvent(pip_cmd.val, rc))
               /\ IF execute_in_subprocess_raises(rc)
                  THEN /\ Raise("CalledProcessError")
                       /\ UNCHANGED returned
                  ELSE /\ pc' = "returned"
                       /\ returned' = Some(args.venv_directory \o "/bin/python")
                       /\ UNCHANGED raised
       ELSE /\ pc' = "returned"
            /\ returned' = Some(args.venv_directory \o "/bin/python")
            /\ UNCHANGED <<trace, raised>>
    /\ UNCHANGED <<args, pip_install_options, pip_cmd, pip_conf, pip_conf0, file0, file, template, pos>>

Next ==
    \/ ConfigureIndex
    \/ Create
    \/ Validate
    \/ BuildInstall
    \/ Install

Spec == Init /\ [][Next]_vars

----------------------------------------------------------------------------
(* The builders called on their own *)

BuildCalls ==
    [fn : {"_generate_venv_cmd"}, tmp_dir : Dirs, python_bin : PythonBins,
     system_site_packages : BOOLEAN]
    \cup
    [fn : {"_generate_install_cmd_from_list"}, venv_directory : Dirs,
     requirements : SeqsUpTo(Packages, MaxReqs),
     install_options : SeqsUpTo(Options, MaxOpts), installer : BuildInstallers]
    \cup
    [fn : {"_generate_install_cmd_from_file"}, venv_directory : Dirs,
     requirements_file_path : ReqFiles,
     install_options : SeqsUpTo(Options, MaxOpts), installer : BuildInstallers]
    \cup
    [fn : {"_generate_pip_conf"}, conf_file : {ConfFile(d) : d \in Dirs},
     index_urls : SeqsUpTo(BuildUrls, MaxBuildUrls)]

InitBuild ==
    /\ args \in BuildCalls
    /\ pc = "call"
    /\ pip_install_options = None
    /\ pip_cmd = None
    /\ trace = <<>>
    /\ pip_conf0 \in ConfFileContents
    /\ pip_conf = pip_conf0
    /\ raised = None
    /\ returned = None
    /\ file0 = None
    /\ file = None
    /\ template = <<>>
    /\ pos = 0

Return(v) ==
    /\ pc' = "returned"
    /\ returned' = Some(v)
    /\ UNCHANGED <<args, pip_install_options, pip_cmd, raised, pip_conf0, file0, file, template, pos>>

Call_generate_venv_cmd ==
    /\ pc = "call"
    /\ args.fn = "_generate_venv_cmd"
    /\ Return(_generate_venv_cmd(args.tmp_dir, args.python_bin, args.system_site_packages))
    /\ UNCHANGED <<trace, pip_conf>>

Call_generate_install_cmd_from_list ==
    /\ pc = "call"
    /\ args.fn = "_generate_install_cmd_from_list"
    /\ Return(_generate_install_cmd_from_list(args.venv_directory, args.requirements,
                                              args.install_options, args.installer))
    /\ UNCHANGED <<trace, pip_conf>>

Call_generate_install_cmd_from_file ==
    /\ pc = "call"
    /\ args.fn = "_generate_install_cmd_from_file"
    /\ Return(_generate_install_cmd_from_file(args.venv_directory, args.requirements_file_path,
                                              args.install_options, args.installer))
    /\ UNCHANGED <<trace, pip_conf>>

\* l.76-83: builds the text and writes it to conf_file; returns None unless
\* write_text raises
Call_generate_pip_conf ==
    /\ pc = "call"
    /\ args.fn = "_generate_pip_conf"
    /\ LET text == _generate_pip_conf(args.index_urls)
       IN  \E w \in WriteTextOutcomes(pip_conf, text) :
              /\ trace' = Append(trace, WriteEvent(args.conf_file, text, w.ok))
              /\ pip_conf' = w.content
              /\ IF w.ok
                 THEN /\ pc' = "returned"
                      /\ UNCHANGED raised
                 ELSE Raise(w.exc.val)
    /\ UNCHANGED <<args, pip_install_options, pip_cmd, returned, pip_conf0, file0, file,
                   template, pos>>

NextBuild ==
    \/ Call_generate_venv_cmd
    \/ Call_generate_install_cmd_from_list
    \/ Call_generate_install_cmd_from_file
    \/ Call_generate_pip_conf

SpecBuild == InitBuild /\ [][NextBuild]_vars

----------------------------------------------------------------------------
(* write_python_script: lines 139-166 *)

VarNames == {"x", "y"}

\* a compiled template is a sequence of output nodes: literal data, or the
\* value of a context variable
TemplateNodes ==
    {[kind |-> "data", text |-> "import os\n"]}
    \cup {[kind |-> "var", name |-> n] : n \in VarNames}

Contexts == UNION {[S -> {"1", "os"}] : S \in SUBSET VarNames}

ScriptCalls ==
    [jinja_context : Contexts, filename : {"script.py"}, render_template_as_native_obj : BOOLEAN]

InitScript ==
    /\ args \in ScriptCalls
    /\ template \in SeqsUpTo(TemplateNodes, MaxNodes)
    /\ file0 \in {None, Some(""), Some("old\n")}
    /\ file = file0
    /\ pc = "start"
    /\ pos = 0
    /\ pip_install_options = None
    /\ pip_cmd = None
    /\ trace = <<>>
    /\ pip_conf0 = None
    /\ pip_conf = pip_conf0
    /\ raised = None
    /\ returned = None

\* l.153-165: both environments are built with undefined=jinja2.StrictUndefined
StrictUndefined(render_template_as_native_obj) == TRUE

\* l.153-165: build the environment and load the template
GetTemplate ==
    /\ pc = "start"
    /\ pc' = "dump_open"
    /\ UNCHANGED <<args, pip_install_options, pip_cmd, trace, pip_conf, raised, returned,
                   pip_conf0, file0, file, template, pos>>

\* l.166: TemplateStream.dump(filename) opens the file for writing, which
\* creates or truncates it, before the first node is rendered
DumpOpen ==
    /\ pc = "dump_open"
    /\ file' = Some("")
    /\ pc' = "dump_write"
    /\ UNCHANGED <<args, pip_install_options, pip_cmd, trace, pip_conf, raised, returned,
                   pip_conf0, file0, template, pos>>

\* l.166: the stream renders the next node and dump writes it; a variable the
\* context lacks raises UndefinedError, and dump closes the file on the way out
DumpNode ==
    /\ pc = "dump_write"
    /\ pos < Len(template)
    /\ LET node == template[pos + 1]
       IN  IF node.kind = "data"
           THEN /\ file' = Some(file.val \o node.text)
                /\ pos' = pos + 1
                /\ UNCHANGED <<pc, raised>>
           ELSE IF node.name \in DOMAIN args.jinja_context
           THEN /\ file' = Some(file.val \o args.jinja_context[node.name])
                /\ pos' = pos + 1
                /\ UNCHANGED <<pc, raised>>
           ELSE IF StrictUndefined(args.render_template_as_native_obj)
           THEN /\ Raise("UndefinedError")
                /\ UNCHANGED <<file, pos>>
           ELSE /\ pos' = pos + 1
                /\ UNCHANGED <<file, pc, raised>>
    /\ UNCHANGED <<args, pip_install_options, pip_cmd, trace, pip_conf, returned,
                   pip_conf0, file0, template>>

\* l.166: the stream is exhausted, dump closes the file and the call returns
DumpClose ==
    /\ pc = "dump_write"
    /\ pos = Len(template)
    /\ pc' = "returned"
    /\ UNCHANGED <<args, pip_install_options, pip_cmd, trace, pip_conf, raised, returned,
                   pip_conf0, file0, file, template, pos>>

NextScript ==
    \/ GetTemplate
    \/ DumpOpen
    \/ DumpNode
    \/ DumpClose

SpecScript == InitScript /\ [][NextScript]_vars

----------------------------------------------------------------------------
(* Properties *)

Terminated == pc \in {"raised", "returned"}

IsExec(e) == e.op = "exec"

IsWrite(e) == e.op = "write_text"

Execs == SelectSeq(trace, IsExec)

Writes == SelectSeq(trace, IsWrite)

WriteFailed == \E i \in 1..Len(trace) : IsWrite(trace[i]) /\ ~trace[i].ok

AllProcessesSucceeded == \A i \in 1..Len(trace) : IsExec(trace[i]) => trace[i].rc = 0

BothPresent == args.requirements # None /\ args.requirements_file_path # None

GivenOptions == IF args.pip_install_options = None THEN <<>> ELSE args.pip_install_options.val

InterpreterPath == args.venv_directory \o "/bin/python"

\* C1: when requirements and requirements_file_path are both given, the call
\* never returns a result, and at the moment it raises ValueError nothing has
\* been written and no process has been spawned.
C1_InvalidRequestHasNoEffect ==
    BothPresent =>
        /\ returned = None
        /\ raised = Some("ValueError") =>
              /\ trace = <<>>
              /\ pip_conf = pip_conf0

C2_Case ==
    /\ args.requirements # None
    /\ Len(args.requirements.val) > 0
    /\ args.requirements_file_path = None
    /\ args.index_urls = None
    /\ args.python_bin = None
    /\ ~args.system_site_packages
    /\ args.installer = "pip"

\* C2: list form with pip, no index urls, default interpreter, every process
\* succeeding: the commands run are exactly the create command and then
\* [<sandbox>/bin/pip, "install", *options, *requirements], pip.conf is not
\* written, and the call returns <sandbox>/bin/python.
C2_EndToEndList ==
    (C2_Case /\ Terminated /\ AllProcessesSucceeded) =>
        /\ Len(trace) = 2
        /\ IsExec(trace[1])
        /\ trace[1].cmd = <<SysExecutable, "-m", "venv", args.venv_directory>>
        /\ IsExec(trace[2])
        /\ trace[2].cmd = <<args.venv_directory \o "/bin/pip", "install">>
                              \o GivenOptions \o args.requirements.val
        /\ pip_conf = pip_conf0
        /\ returned = Some(InterpreterPath)

C3_Case ==
    /\ args.installer = "uv"
    /\ \/ /\ args.requirements # None
          /\ Len(args.requirements.val) > 0
          /\ args.requirements_file_path = None
       \/ /\ args.requirements_file_path # None
          /\ args.requirements_file_path.val # ""
          /\ args.requirements = None

\* C3: with installer "uv" and one non-empty dependency source, a successful
\* create is followed by an install command that starts with
\* <sandbox>/bin/uv, "pip", "install".
C3_UvInstallCommand ==
    (C3_Case /\ Terminated /\ Len(Execs) > 0 /\ Execs[1].rc = 0) =>
        /\ Len(Execs) = 2
        /\ Len(Execs[2].cmd) >= 3
        /\ SubSeq(Execs[2].cmd, 1, 3) = <<args.venv_directory \o "/bin/uv", "pip", "install">>

\* C4: a write_python_script call that fails on an undefined template
\* variable leaves the output path holding what it held before the call.
C4_FailedRenderLeavesFile ==
    raised = Some("UndefinedError") => file = file0

\* the URLs after the first, joined by single spaces, built from the right end
RECURSIVE SpaceSeparated(_)
SpaceSeparated(urls) ==
    IF Len(urls) = 1 THEN urls[1]
    ELSE SpaceSeparated(SubSeq(urls, 1, Len(urls) - 1)) \o " " \o urls[Len(urls)]

\* C5: the index-config text handed to write_text (and held by the file once
\* the call has returned) is "[global]\nno-index = true" for the empty list,
\* "[global]\nindex-url = u1" for one URL, and for more URLs
\* "[global]\nindex-url = u1\nextra-index-url = " followed by the remaining
\* URLs in input order separated by single spaces.
C5_IndexConfigContent ==
    (pc # "call" /\ args.fn = "_generate_pip_conf") =>
        /\ Len(trace) = 1
        /\ IsWrite(trace[1])
        /\ trace[1].path = args.conf_file
        /\ pc = "returned" => pip_conf = Some(trace[1].content)
        /\ LET urls == args.index_urls
               text == trace[1].content
           IN  /\ Len(urls) = 0 => text = "[global]\nno-index = true"
               /\ Len(urls) = 1 => text = "[global]\nindex-url = " \o urls[1]
               /\ Len(urls) > 1 =>
                     text = "[global]\nindex-url = " \o urls[1] \o "\nextra-index-url = "
                               \o SpaceSeparated(SubSeq(urls, 2, Len(urls)))

C5_Witness ==
    /\ pc = "returned"
    /\ args.fn = "_generate_pip_conf"
    /\ args.index_urls = <<"u2", "u1", "u3">>
    /\ pip_conf = Some("[global]\nindex-url = u2\nextra-index-url = u1 u3")

\* the tokens a command must consist of: head, then the options in order,
\* then the tail in order
IsHeadOptionsTail(cmd, head, options, tail) ==
    /\ Len(cmd) = Len(head) + Len(options) + Len(tail)
    /\ \A i \in 1..Len(head) : cmd[i] = head[i]
    /\ \A i \in 1..Len(options) : cmd[Len(head) + i] = options[i]
    /\ \A i \in 1..Len(tail) : cmd[Len(head) + Len(options) + i] = tail[i]

\* C6: the install builders return [<sandbox>/bin/uv, "pip", "install",
\* *options, *requirements] (list) and [<sandbox>/bin/uv, "pip", "install",
\* *options, "-r", file] (file) for uv, and for pip the same with
\* <sandbox>/bin/pip first and without the "pip" token; options and
\* requirements keep their order and the options come first.
C6_InstallCommands ==
    (pc = "returned" /\ args.fn \in {"_generate_install_cmd_from_list",
                                     "_generate_install_cmd_from_file"}) =>
        LET tail == IF args.fn = "_generate_install_cmd_from_list"
                    THEN args.requirements
                    ELSE <<"-r", args.requirements_file_path>>
        IN  /\ returned # None
            /\ args.installer = "uv" =>
                  IsHeadOptionsTail(returned.val,
                                    <<args.venv_directory \o "/bin/uv", "pip", "install">>,
                                    args.install_options, tail)
            /\ args.installer = "pip" =>
                  IsHeadOptionsTail(returned.val,
                                    <<args.venv_directory \o "/bin/pip", "install">>,
                                    args.install_options, tail)

C6_Witness ==
    /\ pc = "returned"
    /\ args.fn = "_generate_install_cmd_from_file"
    /\ args.installer = "uv"
    /\ returned = Some(<<"/tmp/x/bin/uv", "pip", "install", "--pre", "-q", "-r", "r.txt">>)

\* C7: pip.conf is never written when index_urls is None; when index_urls is
\* a list (the empty one included, which gives the no-index text) write_text
\* is called on <sandbox>/pip.conf exactly once, as the first effect of the
\* call and so before the create command runs; a write that succeeds leaves
\* the file holding the text, a write that fails ends the call before any
\* process is spawned.
C7_ConfigureIndexIff ==
    /\ args.index_urls = None => (Writes = <<>> /\ pip_conf = pip_conf0)
    /\ (args.index_urls # None /\ pc = "start") => trace = <<>>
    /\ (args.index_urls # None /\ pc # "start") =>
          /\ Len(Writes) = 1
          /\ IsWrite(trace[1])
          /\ trace[1].path = args.venv_directory \o "/pip.conf"
          /\ trace[1].ok => pip_conf = Some(trace[1].content)
          /\ ~trace[1].ok => (pc = "raised" /\ Execs = <<>>)
          /\ args.index_urls.val = <<>> => trace[1].content = "[global]\nno-index = true"

C7_Witness ==
    /\ args.index_urls = Some(<<>>)
    /\ Len(trace) = 2
    /\ IsWrite(trace[1])
    /\ IsExec(trace[2])
    /\ pip_conf = Some("[global]\nno-index = true")

C8_Case ==
    /\ args.requirements = None \/ args.requirements.val = <<>>
    /\ args.requirements_file_path = None \/ args.requirements_file_path.val = ""
    /\ ~BothPresent

C8_OneProcessOnly ==
    /\ Len(Execs) = 1
    /\ Len(Execs[1].cmd) >= 4
    /\ SubSeq(Execs[1].cmd, 2, 4) = <<"-m", "venv", args.venv_directory>>
    /\ Execs[1].rc = 0 => returned = Some(InterpreterPath)

\* C8 as stated: with nothing to install, every call spawns exactly one
\* process, the create command, and returns <sandbox>/bin/python if create
\* succeeds.
C8_NothingToInstall_Original ==
    /\ C8_Case => Len(Execs) <= 1
    /\ (C8_Case /\ Terminated) => C8_OneProcessOnly

\* C8 amended: with nothing to install, no install command is built, and
\* every call whose pip.conf write (if any) does not fail spawns exactly one
\* process, the create command, and returns <sandbox>/bin/python if create
\* succeeds; a call whose pip.conf write fails raises without spawning any
\* process and without returning.
C8_NothingToInstall ==
    /\ C8_Case => (Len(Execs) <= 1 /\ pip_cmd = None)
    /\ (C8_Case /\ Terminated /\ ~WriteFailed) => C8_OneProcessOnly
    /\ (C8_Case /\ WriteFailed) =>
          /\ Execs = <<>>
          /\ pc = "raised"
          /\ returned = None

C8_Witness ==
    /\ C8_Case
    /\ args.requirements = Some(<<>>)
    /\ args.requirements_file_path = None
    /\ pc = "returned"
    /\ Len(Execs) = 1
    /\ returned = Some(InterpreterPath)

\* C9: a command that exits non-zero is the last effect of the call and the
\* call raises without returning a result (so a failed create is never
\* followed by an install); no command is executed twice and at most two
\* processes are spawned.
C9_AbortOnFailure ==
    /\ \A i \in 1..Len(trace) :
          (IsExec(trace[i]) /\ trace[i].rc # 0) =>
              /\ i = Len(trace)
              /\ pc = "raised"
              /\ raised = Some("CalledProcessError")
              /\ returned = None
    /\ \A i, j \in 1..Len(Execs) : i # j => Execs[i].cmd # Execs[j].cmd
    /\ Len(Execs) <= 2

C9_Witness ==
    /\ pc = "raised"
    /\ Len(Execs) = 1
    /\ Execs[1].rc # 0
    /\ returned = None

\* C10: the first process a call runs is [interpreter, "-m", "venv",
\* <sandbox>] plus a final "--system-site-packages" iff system_site_packages,
\* with interpreter = python_bin if given and the running interpreter
\* otherwise; and every call whose pip.conf write does not fail runs it.
C10_CreateCommandFirst ==
    LET interpreter == IF args.python_bin = None THEN SysExecutable ELSE args.python_bin.val
        base == <<interpreter, "-m", "venv", args.venv_directory>>
    IN  /\ Len(Execs) > 0 =>
              Execs[1].cmd = IF args.system_site_packages
                             THEN base \o <<"--system-site-packages">>
                             ELSE base
        /\ (pc \notin {"start", "create"} /\ ~WriteFailed) => Len(Execs) > 0

C10_Witness ==
    /\ args.system_site_packages
    /\ args.python_bin = Some("/opt/py39")
    /\ args.index_urls # None
    /\ Len(trace) = 2
    /\ IsExec(trace[2])
    /\ trace[2].cmd = <<"/opt/py39", "-m", "venv", args.venv_directory, "--system-site-packages">>

====
